---------------------------- MODULE Spec2Model ----------------------------
(***************************************************************************)
(* Human-in-the-loop approval workflow of the trading bot, in its three    *)
(* variants:                                                               *)
(*   "s6"  langgraph-agent/session_6_mcp_host.py   (polling tool)          *)
(*   "s7"  langgraph_agent_with_a2a/session_7_a2a_host.py                  *)
(*         (graph compiled with interrupt_before=["approval"])             *)
(*   "ta"  langgraph_agent/trading_agent.py + trading_api.py               *)
(*         (interrupt() inside the tool, resume as a background task)      *)
(* Each variant is a separate host process; Init picks the one that runs.  *)
(***************************************************************************)
EXTENDS Integers, Sequences, FiniteSets, Bags, TLC

\* ------------------------------------------------------------------ bounds
MaxPolls == 2         \* poll iterations that fit in the approval timeout
MaxResponses == 3     \* approval_response messages received on /ws
MaxMessages == 2      \* the same, on /ws of session_7
MaxSeconds == 1       \* clock seconds that pass while sessions are started
MaxEvents == 2        \* events published to the observers

Sessions == {1, 2}   \* concurrent /api/trade requests
Variants == {"s6", "s7", "ta"}
Tickers == {"AAPL"}
StartTickers == {"AAPL", "NVDA"}   \* tickers of the session-start view
Conns == {1, 2}   \* conn ids (uuid4 prefixes) of the /ws connections
Recommendations == {"BUY", "SELL", "HOLD", "NONE"}   \* NONE: missing / unknown
Actions == {"BUY", "SELL", "HOLD"}

\* request ids are uuid-suffixed strings; the model numbers them in creation
\* order.  Bogus is an id no request ever had.
Bogus == 0

VARIABLES
    variant,                 \* which host is running
    pc,                      \* per session: position of request_trade / the graph
    state,                   \* per session: TraderState / tool arguments
    stages,                  \* per session: graph nodes / tools run, in order
    req,                     \* per session: req_id local of the waiting coroutine
    waited,                  \* per session: polls slept so far
    pending_approvals,       \* request_id -> card (s6, s7) or thread_id (ta)
    pending_request_payloads,\* request_id -> approval_request (ta)
    completed_approvals,     \* request_id -> result (s6, s7)
    published,               \* bag of the events handed to broadcast
    next_id,                 \* next fresh request id
    responses,               \* approval_response messages received so far
    late,                    \* request ids whose timeout fired
    accepted,                \* request ids for which a response was stored
    tasks,                   \* ta: per thread, the bag of its tasks
    calls,                   \* ta: resume tasks started, per thread
    ckpt,                    \* ta: checkpoint of the thread
    now,                     \* int(time.time()): the clock second
    thread_ids,              \* per session: thread id given at its start
    checkpoints,             \* MemorySaver: thread id -> sessions writing it
    queue,                   \* events put on the broadcast queue, not yet taken
    active_connections,      \* conn ids registered, in insertion order
    opened,                  \* conn ids of every /ws connection accepted so far
    running,                 \* broadcasts in progress
    received,                \* per conn id: the events delivered to it, in order
    reg_at,                  \* per conn id: events published when it registered
    n_pub,                   \* events published so far
    raised,                  \* events whose broadcast ended with an exception
    failed,                  \* <<event, conn id>> of every send that raised
    execution_stats,         \* s7: the counters of /api/stats
    ticks,                   \* s7: per session, graph invocations so far
    outcome,                 \* per session: what request_trade returned
    orders,                  \* sessions whose execute_trade placed the order
    tool_in,                 \* approval tool view: the call and how its wait ends
    tool_out                 \* approval tool view: the result returned

\* state of the session-start view (thread ids and what is keyed by them)
idvars == <<now, thread_ids, checkpoints>>

\* state that the approval workflow below leaves alone
\* state of the fan-out view (observers and deliveries)
fanvars == <<queue, active_connections, opened, running, received, reg_at,
             n_pub, raised, failed>>

\* what a request returns and what the host counts
runvars == <<execution_stats, ticks, outcome, orders>>

\* state of the approval tool view
toolvars == <<tool_in, tool_out>>

\* the approval workflow's own state, with what a request returns
flowvars_but_tool ==
    <<variant, pc, state, stages, req, waited, pending_approvals,
      pending_request_payloads, completed_approvals, published, next_id,
      responses, late, accepted, tasks, calls, ckpt, runvars>>

aux == <<idvars, fanvars, runvars, toolvars>>

vars == <<variant, pc, state, stages, req, waited, pending_approvals,
          pending_request_payloads, completed_approvals, published, next_id,
          responses, late, accepted, tasks, calls, ckpt, aux>>

\* ------------------------------------------------------------ dict helpers
Pop(d, k) == [x \in DOMAIN d \ {k} |-> d[x]]
Put(d, k, v) == [x \in DOMAIN d \cup {k} |-> IF x = k THEN v ELSE d[x]]
Empty == [x \in {} |-> 0]

\* one more event handed to broadcast / put on the broadcast queue
publish(e) == published (+) SetToBag({e})

Approved(appr) == IF appr = <<>> THEN "None"
                  ELSE IF appr[1].approved THEN "True" ELSE "False"

\* request ids created so far (each one is fresh: uuid4 suffix in the source)
known_ids == 1..(next_id - 1)

approval_request_event(rid, s) ==
    [type |-> "approval_request", rid |-> rid, approved |-> FALSE, sess |-> s]

approval_processed_event(rid, approved) ==
    [type |-> "approval_processed", rid |-> rid, approved |-> approved,
     sess |-> 0]

\* --------------------------------------------------------------- s7: graph
\* variant of the routing that sends every decided BUY/SELL to agent_b
route_without_approved_test(st) ==
    IF st.final \in {"BUY", "SELL"} /\ Approved(st.approval) = "None"
    THEN "approval"
    ELSE IF st.final \in {"BUY", "SELL"}
         THEN "agent_b"
         ELSE "finalizer"

\* variant of the routing that sends every undecided session to the gate
route_without_action_test(st) ==
    IF Approved(st.approval) = "None"
    THEN "approval"
    ELSE IF st.final \in {"BUY", "SELL"} /\ Approved(st.approval) = "True"
         THEN "agent_b"
         ELSE "finalizer"

\* route_after_a_or_approval
route_after_a_or_approval(st) ==
    IF st.final \in {"BUY", "SELL"} /\ Approved(st.approval) = "None"
    THEN "approval"
    ELSE IF st.final \in {"BUY", "SELL"} /\ Approved(st.approval) = "True"
         THEN "agent_b"
         ELSE "finalizer"

\* variant of the timeout decision that approves
timeout_decision_approving ==
    [approved |-> TRUE, notes |-> "Timeout - auto rejected"]

\* decision synthesized by the timeout branch of wait_for_approval_and_resume
timeout_decision == [approved |-> FALSE, notes |-> "Timeout - auto rejected"]

\* variant of the timeout branch that announces the synthetic rejection
timeout_published_announcing(rid) ==
    publish(approval_processed_event(rid, FALSE))

\* events handed to broadcast by a timeout branch (session_7 loop body,
\* session_6 code after the loop): none
timeout_published(rid) == published

\* result built by the /ws handler from an approval_response
ws_result(approved) == [approved |-> approved, notes |-> ""]

\* completed_approvals.pop(req_id, {"approved": False})
pop_completed(rid) ==
    IF rid \in DOMAIN completed_approvals THEN completed_approvals[rid]
    ELSE [approved |-> FALSE, notes |-> ""]

\* nothing has been returned yet
NoOutcome == [status |-> "", error |-> "", trade |-> FALSE]

\* execution_stats as the module defines it, no request made so far
NoRuns ==
    /\ execution_stats = [total_requests |-> 0, successful |-> 0,
                          failed |-> 0, approved |-> 0, rejected |-> 0,
                          timeouts |-> 0]
    /\ ticks = [s \in Sessions |-> 0]
    /\ outcome = [s \in Sessions |-> NoOutcome]
    /\ orders = {}

\* no call of the approval tool is looked at
NoCall == [ticker |-> "", action |-> "", end |-> "", approved |-> ""]
NoResult == [approved |-> FALSE, token |-> FALSE, error |-> "none"]
NoTool == tool_in = NoCall /\ tool_out = NoResult

\* no observer has connected and nothing has been published
NoObservers ==
    /\ queue = <<>>
    /\ active_connections = <<>>
    /\ opened = {}
    /\ running = {}
    /\ received = [c \in Conns |-> <<>>]
    /\ reg_at = [c \in Conns |-> 0]
    /\ n_pub = 0
    /\ raised = {}
    /\ failed = {}

Init ==
    /\ variant \in Variants
    /\ pc = [s \in Sessions |-> "idle"]
    /\ state = [s \in Sessions |->
                  [ticker |-> "", prelim |-> "", final |-> "",
                   trade |-> FALSE, finalized |-> FALSE,
                   approval |-> <<>>]]
    /\ stages = [s \in Sessions |-> <<>>]
    /\ req = [s \in Sessions |-> Bogus]
    /\ waited = [s \in Sessions |-> 0]
    /\ pending_approvals = Empty
    /\ pending_request_payloads = Empty
    /\ completed_approvals = Empty
    /\ published = EmptyBag
    /\ next_id = 1
    /\ responses = 0
    /\ late = {}
    /\ accepted = {}
    /\ tasks = [s \in Sessions |-> EmptyBag]
    /\ calls = [s \in Sessions |-> 0]
    /\ ckpt = [s \in Sessions |-> "none"]
    /\ now = 0
    /\ thread_ids = [s \in Sessions |-> [ticker |-> "", sec |-> 0, uuid |-> s]]
    /\ checkpoints = Empty
    /\ NoObservers
    /\ NoRuns
    /\ NoTool

\* the loop guard of request_trade
max_ticks == 20

\* what request_trade returns
error_result(e) == [status |-> "error", error |-> e, trade |-> FALSE]
success_result(trade) == [status |-> "success", error |-> "", trade |-> trade]

\* variant of the head that counts the request before it looks at the ticker
request_trade_counting_first(s, ticker) ==
    /\ execution_stats' = [execution_stats EXCEPT !.total_requests = @ + 1]
    /\ IF ticker = ""
       THEN /\ outcome' = [outcome EXCEPT
                             ![s] = error_result("Ticker is required")]
            /\ pc' = [pc EXCEPT ![s] = "rejected"]
            /\ UNCHANGED <<state, ticks>>
       ELSE /\ state' = [state EXCEPT ![s].ticker = ticker]
            /\ ticks' = [ticks EXCEPT ![s] = 1]
            /\ pc' = [pc EXCEPT ![s] = "agent_a"]
            /\ UNCHANGED outcome

\* head of request_trade, up to the first ainvoke: the stripped ticker is
\* tested before total_requests is counted and the thread id is made
request_trade_begin(s, ticker) ==
    IF ticker = ""
    THEN /\ outcome' = [outcome EXCEPT
                          ![s] = error_result("Ticker is required")]
         /\ pc' = [pc EXCEPT ![s] = "rejected"]
         /\ UNCHANGED <<state, execution_stats, ticks>>
    ELSE /\ execution_stats' = [execution_stats EXCEPT
                                  !.total_requests = @ + 1]
         /\ state' = [state EXCEPT ![s].ticker = ticker]
         /\ ticks' = [ticks EXCEPT ![s] = 1]
         /\ pc' = [pc EXCEPT ![s] = "agent_a"]
         /\ UNCHANGED outcome

\* POST /api/trade of session_7; the body's ticker is stripped, so a blank
\* ticker arrives as ""
s7_request_trade(s) ==
    /\ variant = "s7"
    /\ pc[s] = "idle"
    /\ \E ticker \in Tickers \cup {""} : request_trade_begin(s, ticker)
    /\ UNCHANGED <<toolvars, idvars, fanvars, orders, variant, stages, req, waited,
                   pending_approvals, pending_request_payloads,
                   completed_approvals, published, next_id, responses, late,
                   accepted, tasks, calls, ckpt>>

\* variant of the handler that goes round the loop again
except_Exception_retrying(s, e) ==
    /\ execution_stats' = [execution_stats EXCEPT !.failed = @ + 1]
    /\ pc' = [pc EXCEPT ![s] = "agent_a"]
    /\ UNCHANGED outcome

\* request_trade, "except Exception" branch: count the failure, return the
\* error
except_Exception(s, e) ==
    /\ execution_stats' = [execution_stats EXCEPT !.failed = @ + 1]
    /\ outcome' = [outcome EXCEPT ![s] = error_result(e)]
    /\ pc' = [pc EXCEPT ![s] = "failed"]

\* a node raises inside ainvoke (the model call or a tool of its ReAct agent
\* failed); in agent_b that can be before or after execute_trade placed the
\* order
ainvoke_raises(s) ==
    /\ variant = "s7"
    /\ pc[s] \in {"agent_a", "agent_b", "finalizer"}
    /\ except_Exception(s, "stage")
    /\ \E placed \in BOOLEAN :
         orders' = IF placed /\ pc[s] = "agent_b" THEN orders \cup {s}
                   ELSE orders
    /\ UNCHANGED <<toolvars, idvars, fanvars, ticks, variant, state, stages, req,
                   waited, pending_approvals, pending_request_payloads,
                   completed_approvals, published, next_id, responses, late,
                   accepted, tasks, calls, ckpt>>

\* variant of the decision that passes the recommendation on as it is
final_action_passing(rec) == rec

\* agent_a_node: final["action"] starts as "HOLD" and takes the recommendation
\* of the trend analysis only when that is BUY, SELL or HOLD
final_action(rec) == IF rec \in {"BUY", "SELL", "HOLD"} THEN rec ELSE "HOLD"

\* agent_a_node followed by the conditional edge out of agent_a; the graph
\* halts before "approval" (interrupt_before)
agent_a_node(s) ==
    /\ variant = "s7"
    /\ pc[s] = "agent_a"
    /\ \E rec \in Recommendations :
         LET act == final_action(rec)
             st == [state[s] EXCEPT !.prelim = rec, !.final = act]
             nxt == route_after_a_or_approval(st)
         IN /\ state' = [state EXCEPT ![s] = st]
            /\ pc' = [pc EXCEPT ![s] =
                        IF nxt = "approval" THEN "interrupted" ELSE nxt]
    /\ stages' = [stages EXCEPT ![s] = Append(@, "agent_a")]
    /\ published' = publish([type |-> "stage", rid |-> Bogus,
                                        approved |-> FALSE, sess |-> s])
    /\ UNCHANGED <<aux, variant, req, waited, pending_approvals,
                   pending_request_payloads, completed_approvals,
                   next_id, responses, late, accepted, tasks, calls, ckpt>>

\* variant of the head that registers the card and broadcasts nothing
wait_for_approval_and_resume_begin_silent(s) ==
    /\ LET rid == next_id
           card == [request_id |-> rid, ticker |-> state[s].ticker,
                    action |-> state[s].final, owner |-> s]
       IN /\ pending_approvals' = Put(pending_approvals, rid, card)
          /\ req' = [req EXCEPT ![s] = rid]
    /\ next_id' = next_id + 1
    /\ waited' = [waited EXCEPT ![s] = 0]
    /\ pc' = [pc EXCEPT ![s] = "waiting"]
    /\ UNCHANGED <<aux, variant, state, stages, pending_request_payloads,
                   completed_approvals, responses, late, accepted, tasks,
                   calls, ckpt, published>>

\* head of wait_for_approval_and_resume: register the card, broadcast it
wait_for_approval_and_resume_begin(s) ==
    /\ LET rid == next_id
           card == [request_id |-> rid, ticker |-> state[s].ticker,
                    action |-> state[s].final, owner |-> s]
       IN /\ pending_approvals' = Put(pending_approvals, rid, card)
          /\ published' = publish(approval_request_event(rid, s))
          /\ req' = [req EXCEPT ![s] = rid]
    /\ next_id' = next_id + 1
    /\ waited' = [waited EXCEPT ![s] = 0]
    /\ pc' = [pc EXCEPT ![s] = "waiting"]
    /\ UNCHANGED <<aux, variant, state, stages, pending_request_payloads,
                   completed_approvals, responses, late, accepted, tasks,
                   calls, ckpt>>

\* request_trade, "except GraphInterrupt" branch
request_trade_GraphInterrupt(s) ==
    /\ variant = "s7"
    /\ pc[s] = "interrupted"
    /\ wait_for_approval_and_resume_begin(s)

\* request_trade, fallback branch: ainvoke returned the halted state and
\* needs_approval is true
request_trade_needs_approval(s) ==
    /\ variant = "s7"
    /\ pc[s] \in {"interrupted", "end"}
    /\ state[s].final \in {"BUY", "SELL"}
    /\ state[s].approval = <<>>
    /\ wait_for_approval_and_resume_begin(s)

\* variant of the binding that also resets the final decision
bind_decision_overwriting(s, decision) ==
    /\ state' = [state EXCEPT ![s].approval =
                    <<[approved |-> decision.approved,
                       notes |-> decision.notes]>>,
                              ![s].final = "HOLD"]
    /\ pc' = [pc EXCEPT ![s] = "resume"]

\* the decision is bound with update_state(as_node="approval") and the
\* coroutine returns Command(resume=decision)
bind_decision(s, decision) ==
    /\ state' = [state EXCEPT ![s].approval =
                    <<[approved |-> decision.approved,
                       notes |-> decision.notes]>>]
    /\ pc' = [pc EXCEPT ![s] = "resume"]

\* variant of the sleep during which no time passes
after_sleep_frozen(s) == waited[s]

\* time.time() - start after one more asyncio.sleep(0.4) of the loop
after_sleep(s) == waited[s] + 1

\* time.time() - start > timeout, the 300 s counted in sleeps of the loop
timed_out(s) == waited[s] >= MaxPolls

\* variant of the counting that leaves a timeout out of "rejected"
count_decision_skipping_timeout(decision, timeout) ==
    IF timeout
    THEN [execution_stats EXCEPT !.timeouts = @ + 1]
    ELSE IF decision.approved
    THEN [execution_stats EXCEPT !.approved = @ + 1]
    ELSE [execution_stats EXCEPT !.rejected = @ + 1]

\* execution_stats after a wait has ended: "timeouts" in the loop, then
\* "approved" or "rejected" by the decision
count_decision(decision, timeout) ==
    LET st == IF timeout
              THEN [execution_stats EXCEPT !.timeouts = @ + 1]
              ELSE execution_stats
    IN IF decision.approved
       THEN [st EXCEPT !.approved = @ + 1]
       ELSE [st EXCEPT !.rejected = @ + 1]

\* one iteration of the wait loop of wait_for_approval_and_resume, with the
\* code after the loop when the loop ends
wait_for_approval_and_resume(s) ==
    /\ variant = "s7"
    /\ pc[s] = "waiting"
    /\ LET rid == req[s] IN
       IF rid \in DOMAIN completed_approvals
       THEN /\ bind_decision(s, pop_completed(rid))
            /\ completed_approvals' = Pop(completed_approvals, rid)
            /\ execution_stats' = count_decision(pop_completed(rid), FALSE)
            /\ UNCHANGED <<pending_approvals, late, waited, published>>
       ELSE IF timed_out(s)
       THEN /\ bind_decision(s, timeout_decision)
            /\ pending_approvals' = Pop(pending_approvals, rid)
            /\ late' = late \cup {rid}
            /\ published' = timeout_published(rid)
            /\ execution_stats' = count_decision(timeout_decision, TRUE)
            /\ UNCHANGED <<completed_approvals, waited>>
       ELSE /\ waited' = [waited EXCEPT ![s] = after_sleep(s)]
            /\ UNCHANGED <<state, pc, pending_approvals, completed_approvals,
                           late, published, execution_stats>>
    /\ UNCHANGED <<toolvars, idvars, fanvars, ticks, outcome, orders, variant, stages,
                   req, pending_request_payloads, next_id, responses,
                   accepted, tasks, calls, ckpt>>

\* ainvoke(Command(resume=decision)): the graph leaves the gate through the
\* conditional edge out of "approval", whose path map has no "approval" key
\* The next loop iteration counts a tick and returns the loop-guard error
\* past max_ticks.
s7_resume(s) ==
    /\ variant = "s7"
    /\ pc[s] = "resume"
    /\ ticks' = [ticks EXCEPT ![s] = @ + 1]
    /\ LET nxt == route_after_a_or_approval(state[s])
       IN IF ticks[s] + 1 > max_ticks
          THEN /\ outcome' = [outcome EXCEPT ![s] =
                                error_result("Internal loop guard triggered")]
               /\ pc' = [pc EXCEPT ![s] = "failed"]
               /\ UNCHANGED execution_stats
          ELSE IF nxt = "approval"
          THEN /\ execution_stats' = [execution_stats EXCEPT
                                        !.failed = @ + 1]
               /\ outcome' = [outcome EXCEPT ![s] = error_result("approval")]
               /\ pc' = [pc EXCEPT ![s] = "error"]
          ELSE /\ pc' = [pc EXCEPT ![s] = nxt]
               /\ UNCHANGED <<execution_stats, outcome>>
    /\ UNCHANGED <<toolvars, idvars, fanvars, orders, variant, state, stages, req,
                   waited, pending_approvals, pending_request_payloads,
                   completed_approvals, published, next_id, responses, late,
                   accepted, tasks, calls, ckpt>>

\* agent_b_node: execute_trade has returned its order; the result of
\* finalize_and_notify is found among the messages or "finalized" is {}
agent_b_node(s) ==
    /\ variant = "s7"
    /\ pc[s] = "agent_b"
    /\ stages' = [stages EXCEPT ![s] = Append(@, "agent_b")]
    /\ published' = publish([type |-> "trade", rid |-> Bogus,
                                        approved |-> FALSE, sess |-> s])
    /\ pc' = [pc EXCEPT ![s] = "end"]
    /\ orders' = orders \cup {s}
    /\ \E fin \in BOOLEAN :
         state' = [state EXCEPT ![s].trade = TRUE, ![s].finalized = fin]
    /\ UNCHANGED <<toolvars, idvars, fanvars, execution_stats, ticks, outcome, variant,
                   req, waited, pending_approvals,
                   pending_request_payloads, completed_approvals,
                   next_id, responses, late, accepted, tasks, calls, ckpt>>

\* finalizer_node; what it returns as "finalized" carries no trade and is
\* left out of the state kept here
finalizer_node(s) ==
    /\ variant = "s7"
    /\ pc[s] = "finalizer"
    /\ stages' = [stages EXCEPT ![s] = Append(@, "finalizer")]
    /\ published' = publish([type |-> "stage", rid |-> Bogus,
                                        approved |-> FALSE, sess |-> s])
    /\ pc' = [pc EXCEPT ![s] = "end"]
    /\ UNCHANGED <<aux, variant, state, req, waited, pending_approvals,
                   pending_request_payloads, completed_approvals,
                   next_id, responses, late, accepted, tasks, calls, ckpt>>

\* the response of the normal completion path: the finalized payload with
\* the trade in it, or the fallback summary, which has no trade
response_trade(st) == st.finalized /\ st.trade

\* request_trade, normal completion path
request_trade_return(s) ==
    /\ variant = "s7"
    /\ pc[s] = "end"
    /\ ~(state[s].final \in {"BUY", "SELL"} /\ state[s].approval = <<>>)
    /\ pc' = [pc EXCEPT ![s] = "done"]
    /\ execution_stats' = [execution_stats EXCEPT !.successful = @ + 1]
    /\ outcome' = [outcome EXCEPT
                     ![s] = success_result(response_trade(state[s]))]
    /\ UNCHANGED <<toolvars, idvars, fanvars, ticks, orders, variant, state, stages,
                   req, waited, pending_approvals,
                   pending_request_payloads, completed_approvals, published,
                   next_id, responses, late, accepted, tasks, calls, ckpt>>

\* websocket_endpoint of session_7: an approval_response is stored whatever
\* its request_id
websocket_endpoint(rid, approved) ==
    /\ variant = "s7"
    /\ responses < MaxMessages
    /\ responses' = responses + 1
    /\ completed_approvals' = Put(completed_approvals, rid, ws_result(approved))
    /\ pending_approvals' = Pop(pending_approvals, rid)
    /\ published' = publish(approval_processed_event(rid, approved))
    /\ accepted' = accepted \cup {rid}
    /\ UNCHANGED <<aux, variant, pc, state, stages, req, waited,
                   pending_request_payloads, next_id, late, tasks, calls, ckpt>>

\* ------------------------------------------------------- s6: polling tool
\* POST /api/trade of session_6: run_trading_demo starts the ReAct agent
s6_request_trade(s) ==
    /\ variant = "s6"
    /\ pc[s] = "idle"
    /\ \E t \in Tickers :
         state' = [state EXCEPT ![s].ticker = t]
    /\ pc' = [pc EXCEPT ![s] = "llm"]
    /\ UNCHANGED <<aux, variant, stages, req, waited, pending_approvals,
                   pending_request_payloads, completed_approvals, published,
                   next_id, responses, late, accepted, tasks, calls, ckpt>>

\* results returned by request_human_approval of session_6
s6_invalid_action == [approved |-> FALSE, notes |-> "invalid action"]
s6_timeout_result == [approved |-> FALSE, notes |-> "timeout"]
s6_unknown_result == [approved |-> FALSE, notes |-> "unknown"]

\* result stored by handle_approval_response of session_6
s6_result(approved) ==
    [approved |-> approved, notes |-> IF approved THEN "token" ELSE "rejected"]

\* request_human_approval of session_6 up to the wait loop; the agent does
\* not call the tool for HOLD, or calls it and is turned away
s6_request_human_approval(s) ==
    /\ variant = "s6"
    /\ pc[s] = "llm"
    /\ \E act \in Actions :
         IF act \notin {"BUY", "SELL"}
         THEN /\ state' = [state EXCEPT ![s].final = act,
                                        ![s].approval = <<s6_invalid_action>>]
              /\ pc' = [pc EXCEPT ![s] = "tool_returned"]
              /\ UNCHANGED <<pending_approvals, published, req, next_id,
                             waited>>
         ELSE /\ state' = [state EXCEPT ![s].final = act]
              /\ pending_approvals' =
                     Put(pending_approvals, next_id,
                         [request_id |-> next_id, ticker |-> state[s].ticker,
                          action |-> act, owner |-> s])
              /\ published' = publish(approval_request_event(next_id, s))
              /\ req' = [req EXCEPT ![s] = next_id]
              /\ next_id' = next_id + 1
              /\ waited' = [waited EXCEPT ![s] = 0]
              /\ pc' = [pc EXCEPT ![s] = "polling"]
    /\ UNCHANGED <<aux, variant, stages, pending_request_payloads,
                   completed_approvals, responses, late, accepted, tasks,
                   calls, ckpt>>

\* the wait of request_human_approval of session_6
max_wait_time == 300
check_interval == 2

\* variant of the loop test that allows one sleep more
loop_continues_late(w, limit, rid) ==
    w <= limit /\ rid \in DOMAIN pending_approvals

\* "while waited < max_wait_time" with the break when the request has left
\* pending_approvals
loop_continues(w, limit, rid) ==
    w < limit /\ rid \in DOMAIN pending_approvals

\* request_human_approval of session_6: one test of the loop condition with
\* the sleep that follows it, and the code after the loop when the loop ends
wait_loop(s, limit, interval) ==
    /\ variant = "s6"
    /\ pc[s] = "polling"
    /\ LET rid == req[s] IN
       IF loop_continues(waited[s], limit, rid)
       THEN /\ waited' = [waited EXCEPT ![s] = @ + interval]
            /\ UNCHANGED <<state, pc, pending_approvals, completed_approvals,
                           late, published>>
       ELSE /\ pc' = [pc EXCEPT ![s] = "tool_returned"]
            /\ UNCHANGED waited
            /\ IF rid \in DOMAIN pending_approvals
               THEN /\ pending_approvals' = Pop(pending_approvals, rid)
                    /\ state' = [state EXCEPT
                                   ![s].approval = <<s6_timeout_result>>]
                    /\ late' = late \cup {rid}
                    /\ published' = timeout_published(rid)
                    /\ UNCHANGED completed_approvals
               ELSE /\ completed_approvals' = Pop(completed_approvals, rid)
                    /\ state' = [state EXCEPT ![s].approval =
                                   IF rid \in DOMAIN completed_approvals
                                   THEN <<completed_approvals[rid]>>
                                   ELSE <<s6_unknown_result>>]
                    /\ UNCHANGED <<pending_approvals, late, published>>
    /\ UNCHANGED <<aux, variant, stages, req, pending_request_payloads,
                   next_id, responses, accepted, tasks, calls, ckpt>>

\* the wait loop with the deadline counted in polls
s6_poll(s) == wait_loop(s, MaxPolls, 1)

\* the agent after the tool returned: execute_trade when approved (step 4 of
\* the prompt of run_trading_demo), then the final answer
s6_agent_after_tool(s) ==
    /\ variant = "s6"
    /\ pc[s] = "tool_returned"
    /\ stages' = [stages EXCEPT ![s] =
                     IF Approved(state[s].approval) = "True"
                     THEN Append(@, "execute_trade") ELSE @]
    /\ pc' = [pc EXCEPT ![s] = "done"]
    /\ UNCHANGED <<aux, variant, state, req, waited, pending_approvals,
                   pending_request_payloads, completed_approvals, published,
                   next_id, responses, late, accepted, tasks, calls, ckpt>>

\* handle_approval_response of session_6
s6_handle_approval_response(rid, approved) ==
    /\ variant = "s6"
    /\ responses < MaxResponses
    /\ responses' = responses + 1
    /\ IF rid \in DOMAIN pending_approvals
       THEN /\ completed_approvals' =
                   Put(completed_approvals, rid, s6_result(approved))
            /\ pending_approvals' = Pop(pending_approvals, rid)
            /\ published' = publish(approval_processed_event(rid, approved))
            /\ accepted' = accepted \cup {rid}
       ELSE UNCHANGED <<completed_approvals, pending_approvals, published,
                        accepted>>
    /\ UNCHANGED <<aux, variant, pc, state, stages, req, waited,
                   pending_request_payloads, next_id, late, tasks, calls, ckpt>>

s6_session(s) ==
    \/ s6_request_trade(s)
    \/ s6_request_human_approval(s)
    \/ s6_poll(s)
    \/ s6_agent_after_tool(s)

\* ------------------------------------------- ta: interrupt() in the tool
agent_completed_event(s) ==
    [type |-> "agent_completed", rid |-> Bogus, approved |-> FALSE, sess |-> s]

agent_error_event(s) ==
    [type |-> "agent_error", rid |-> Bogus, approved |-> FALSE, sess |-> s]

\* a task of a thread: the run_trading_analysis task (resume = <<>>) or a
\* resume_agent_execution task (resume = <<approved>>), with its position and
\* the request_id local of its request_human_approval execution
Task(p, resume, rid) == [pc |-> p, resume |-> resume, rid |-> rid]

\* the tasks of thread s with task t moved to position p, request id rid
Moved(s, t, p, rid) ==
    [tasks EXCEPT ![s] = (@ (-) SetToBag({t}))
                          (+) SetToBag({Task(p, t.resume, rid)})]

\* POST /api/trade of trading_api: run_trading_analysis is started as a
\* task; the agent analyses and decides, and the decision is the action
\* argument of its request_human_approval call
\* A ticker that is empty is turned away before the thread id is made and
\* the task created.
ta_request_trade(s) ==
    /\ variant = "ta"
    /\ pc[s] = "idle"
    /\ \E ticker \in Tickers \cup {""}, act \in Actions :
         IF ticker = ""
         THEN /\ outcome' = [outcome EXCEPT ![s] =
                               error_result("Ticker symbol is required")]
              /\ pc' = [pc EXCEPT ![s] = "rejected"]
              /\ UNCHANGED <<state, tasks>>
         ELSE /\ state' = [state EXCEPT ![s].ticker = ticker,
                                        ![s].final = act]
              /\ pc' = [pc EXCEPT ![s] = "started"]
              /\ tasks' = [tasks EXCEPT
                             ![s] = SetToBag({Task("tool", <<>>, Bogus)})]
              /\ outcome' = [outcome EXCEPT ![s] =
                               [status |-> "started", error |-> "",
                                trade |-> FALSE]]
    /\ UNCHANGED <<toolvars, idvars, fanvars, execution_stats, ticks, orders,
                   variant, stages, req, waited, pending_approvals,
                   pending_request_payloads, completed_approvals, published,
                   next_id, responses, late, accepted, calls, ckpt>>

\* variant of the search that never finds a pending request
_get_pending_request_for_thread_missing(thread_id) == {}

\* _get_pending_request_for_thread: the request ids pending for the thread
\* that also have a payload
_get_pending_request_for_thread(thread_id) ==
    {r \in DOMAIN pending_approvals :
        /\ pending_approvals[r] = thread_id
        /\ r \in DOMAIN pending_request_payloads}

\* variant of _emit_approval_request without the cleanup of the thread's
\* older requests
_emit_approval_request_without_cleanup(request_id, thread_id) ==
    [approvals |-> Put(pending_approvals, request_id, thread_id),
     payloads |-> Put(pending_request_payloads, request_id,
                      [request_id |-> request_id, thread_id |-> thread_id,
                       ticker |-> state[thread_id].ticker,
                       action |-> state[thread_id].final])]

\* _emit_approval_request: pending maps after the call
_emit_approval_request(request_id, thread_id) ==
    LET old == {r \in DOMAIN pending_approvals :
                   pending_approvals[r] = thread_id}
        kept == DOMAIN pending_approvals \ old
        keptp == DOMAIN pending_request_payloads \ old
    IN [approvals |-> [r \in kept \cup {request_id} |->
                          IF r = request_id THEN thread_id
                          ELSE pending_approvals[r]],
        payloads |-> [r \in keptp \cup {request_id} |->
                          IF r = request_id
                          THEN [request_id |-> request_id,
                                thread_id |-> thread_id,
                                ticker |-> state[thread_id].ticker,
                                action |-> state[thread_id].final]
                          ELSE pending_request_payloads[r]]]

\* request_human_approval of trading_agent, steps 1-3: validation and the
\* search for a request already pending for the thread
ta_request_human_approval(s, t) ==
    /\ variant = "ta"
    /\ t.pc = "tool"
    /\ IF state[s].final \notin {"BUY", "SELL"}
       THEN tasks' = Moved(s, t, "agent", Bogus)
       ELSE LET existing == _get_pending_request_for_thread(s)
            IN IF existing # {}
               THEN \E r \in existing : tasks' = Moved(s, t, "interrupt", r)
               ELSE tasks' = Moved(s, t, "create", Bogus)
    /\ UNCHANGED <<aux, variant, pc, state, stages, req, waited, pending_approvals,
                   pending_request_payloads, completed_approvals, published,
                   next_id, responses, late, accepted, calls, ckpt>>

\* request_human_approval of trading_agent, steps 4-6: a new request
ta_new_request(s, t) ==
    /\ variant = "ta"
    /\ t.pc = "create"
    /\ LET maps == _emit_approval_request(next_id, s)
       IN /\ pending_approvals' = maps.approvals
          /\ pending_request_payloads' = maps.payloads
    /\ published' = publish(approval_request_event(next_id, s))
    /\ tasks' = Moved(s, t, "interrupt", next_id)
    /\ next_id' = next_id + 1
    /\ UNCHANGED <<aux, variant, pc, state, stages, req, waited,
                   completed_approvals, responses, late, accepted, calls, ckpt>>

\* request_human_approval of trading_agent, step 7 in the first execution:
\* interrupt() raises GraphInterrupt, the checkpoint keeps the interrupt and
\* run_trading_analysis returns "interrupted"
ta_interrupt(s, t) ==
    /\ variant = "ta"
    /\ t.pc = "interrupt"
    /\ t.resume = <<>>
    /\ ckpt' = [ckpt EXCEPT ![s] = "interrupt"]
    /\ tasks' = Moved(s, t, "suspended", t.rid)
    /\ UNCHANGED <<aux, variant, pc, state, stages, req, waited, pending_approvals,
                   pending_request_payloads, completed_approvals, published,
                   next_id, responses, late, accepted, calls>>

\* request_human_approval of trading_agent, steps 7-9 in a resumed execution:
\* interrupt() returns the response and the pending maps are cleaned; then the
\* agent runs execute_trade when the result says approved (step 4 of the task
\* instruction) and resume_agent_execution publishes agent_completed
ta_resumed(s, t) ==
    /\ variant = "ta"
    /\ t.pc = "interrupt"
    /\ t.resume # <<>>
    /\ pending_approvals' = Pop(pending_approvals, t.rid)
    /\ pending_request_payloads' = Pop(pending_request_payloads, t.rid)
    /\ ckpt' = [ckpt EXCEPT ![s] = "advanced"]
    /\ stages' = [stages EXCEPT ![s] =
                     IF t.resume[1] THEN Append(@, "execute_trade") ELSE @]
    /\ published' = publish(agent_completed_event(s))
    /\ tasks' = Moved(s, t, "done", t.rid)
    /\ UNCHANGED <<aux, variant, pc, state, req, waited, completed_approvals,
                   next_id, responses, late, accepted, calls>>

\* run_trading_analysis when the tool turned the call away (action not
\* BUY/SELL): agent_completed is emitted when the last message has content
ta_agent_after_tool(s, t) ==
    /\ variant = "ta"
    /\ t.pc = "agent"
    /\ \E final_content \in BOOLEAN :
         published' = IF final_content THEN publish(agent_completed_event(s))
                      ELSE published
    /\ tasks' = Moved(s, t, "done", t.rid)
    /\ UNCHANGED <<aux, variant, pc, state, stages, req, waited, pending_approvals,
                   pending_request_payloads, completed_approvals,
                   next_id, responses, late, accepted, calls, ckpt>>

\* "except Exception" of run_trading_analysis and resume_agent_execution:
\* agent_error is emitted and the exception raised again
ta_except_Exception(s, t) ==
    /\ tasks' = Moved(s, t, "failed", t.rid)
    /\ published' = publish(agent_error_event(s))

\* astream raises in the agent (the model call or a tool failed): in the
\* first run or a resumed one before the approval tool has returned, or in a
\* resumed run after it has (the pending maps are cleaned by then)
ta_astream_raises(s, t) ==
    /\ variant = "ta"
    /\ \/ /\ t.pc \in {"tool", "agent"}
          /\ UNCHANGED <<pending_approvals, pending_request_payloads, ckpt>>
       \/ /\ t.pc = "interrupt"
          /\ t.resume # <<>>
          /\ pending_approvals' = Pop(pending_approvals, t.rid)
          /\ pending_request_payloads' = Pop(pending_request_payloads, t.rid)
          /\ ckpt' = [ckpt EXCEPT ![s] = "advanced"]
    /\ ta_except_Exception(s, t)
    /\ UNCHANGED <<aux, variant, pc, state, stages, req, waited,
                   completed_approvals, next_id, responses, late, accepted,
                   calls>>

\* handle_approval_response of trading_api: the pending entry is looked up
\* and left in place, and the resume runs as a new task
ta_handle_approval_response(rid, approved) ==
    /\ variant = "ta"
    /\ responses < MaxResponses
    /\ responses' = responses + 1
    /\ IF rid \in DOMAIN pending_approvals
       THEN LET thread_id == pending_approvals[rid]
            IN /\ published' = publish(approval_processed_event(rid, approved))
               /\ tasks' = [tasks EXCEPT ![thread_id] =
                     @ (+) SetToBag({Task("created", <<approved>>, Bogus)})]
               /\ calls' = [calls EXCEPT ![thread_id] = @ + 1]
               /\ accepted' = accepted \cup {rid}
       ELSE UNCHANGED <<published, tasks, calls, accepted>>
    /\ UNCHANGED <<aux, variant, pc, state, stages, req, waited, pending_approvals,
                   pending_request_payloads, completed_approvals, next_id,
                   late, ckpt>>

\* resume_agent_execution: astream(Command(resume=response)) re-executes the
\* interrupted tool when the checkpoint holds an interrupt, and has nothing to
\* run otherwise
resume_agent_execution(s, t) ==
    /\ variant = "ta"
    /\ t.pc = "created"
    /\ IF ckpt[s] = "interrupt"
       THEN /\ tasks' = Moved(s, t, "tool", Bogus)
            /\ UNCHANGED published
       ELSE /\ tasks' = Moved(s, t, "done", Bogus)
            /\ published' = publish(agent_completed_event(s))
    /\ UNCHANGED <<aux, variant, pc, state, stages, req, waited, pending_approvals,
                   pending_request_payloads, completed_approvals,
                   next_id, responses, late, accepted, calls, ckpt>>

ta_session(s) ==
    \/ ta_request_trade(s)
    \/ \E t \in BagToSet(tasks[s]) :
          \/ ta_request_human_approval(s, t)
          \/ ta_new_request(s, t)
          \/ ta_interrupt(s, t)
          \/ ta_resumed(s, t)
          \/ ta_agent_after_tool(s, t)
          \/ resume_agent_execution(s, t)
          \/ ta_astream_raises(s, t)

s7_session(s) ==
    \/ ainvoke_raises(s)
    \/ s7_request_trade(s)
    \/ agent_a_node(s)
    \/ request_trade_GraphInterrupt(s)
    \/ request_trade_needs_approval(s)
    \/ wait_for_approval_and_resume(s)
    \/ s7_resume(s)
    \/ agent_b_node(s)
    \/ finalizer_node(s)
    \/ request_trade_return(s)

Next ==
    \/ \E s \in Sessions : s7_session(s)
    \/ \E s \in Sessions : s6_session(s)
    \/ \E rid \in known_ids \cup {Bogus}, approved \in BOOLEAN :
           \/ websocket_endpoint(rid, approved)
           \/ s6_handle_approval_response(rid, approved)
           \/ ta_handle_approval_response(rid, approved)
    \/ \E s \in Sessions : ta_session(s)

Spec == Init /\ [][Next]_vars

\* the event loop runs every task that can take a step; nothing obliges a
\* human to answer
FairSpec ==
    /\ Spec
    /\ \A s \in Sessions :
          /\ WF_vars(s6_session(s))
          /\ WF_vars(s7_session(s))
          /\ WF_vars(ta_session(s))

\* ------------------------------------------------ the wait loop in seconds
\* One request of session_6 with the wait loop at its own numbers: waited
\* counts seconds, in steps of check_interval up to max_wait_time.
PollInit == Init /\ variant = "s6"

\* the wait loop as request_human_approval runs it
request_human_approval_wait(s) == wait_loop(s, max_wait_time, check_interval)

PollNext ==
    \/ s6_request_trade(1)
    \/ s6_request_human_approval(1)
    \/ request_human_approval_wait(1)
    \/ s6_agent_after_tool(1)
    \/ \E rid \in known_ids \cup {Bogus}, approved \in BOOLEAN :
          s6_handle_approval_response(rid, approved)

PollSpec == PollInit /\ [][PollNext]_vars

\* ------------------------------------------------- the approval tool alone
\* request_human_approval as a function of its call and of how its wait
\* ends.  The "approved" member of an approval_response message is a JSON
\* value, written here as its literal; the handlers of both hosts pass it
\* through bool().
Json == {"true", "false", "null", "0", "\"\"", "\"false\""}

\* bool(): None, False, 0 and the empty string are false, all else is true
py_bool(j) == j \notin {"false", "null", "0", "\"\""}

\* how the wait of a call can end: a message handled for its request id (or,
\* in trading_agent, a resume value that is no dict), the timeout and the
\* missing resolution of session_6, an exception inside the tool
Ends == {"message", "non_dict", "timeout", "missing", "exception"}

ToolCalls == [ticker : StartTickers, action : Actions, end : Ends,
              approved : Json]

\* _create_approval_response: the token is added when approved and
\* request_id are both set
_create_approval_response(approved, request_id, error) ==
    [approved |-> approved, token |-> approved /\ request_id # "",
     error |-> error]

\* request_human_approval of trading_agent; the resume value of a message is
\* {"approved": bool(msg.get("approved")), "request_id": ...}
ta_tool_result(call) ==
    IF call.action \notin {"BUY", "SELL"}
    THEN _create_approval_response(FALSE, "", "Invalid action")
    ELSE IF call.end = "exception"
    THEN _create_approval_response(FALSE, "", "exception")
    ELSE IF call.end = "message"
    THEN IF py_bool(call.approved)
         THEN _create_approval_response(TRUE, call.ticker, "")
         ELSE _create_approval_response(FALSE, "", "")
    ELSE _create_approval_response(FALSE, "", "Invalid response format")

\* result stored by handle_approval_response of session_6 for a message
s6_stored_result(j) ==
    IF py_bool(j) THEN [approved |-> TRUE, token |-> TRUE, error |-> ""]
    ELSE [approved |-> FALSE, token |-> FALSE, error |-> ""]

\* request_human_approval of session_6
s6_tool_result(call) ==
    IF call.action \notin {"BUY", "SELL"}
    THEN [approved |-> FALSE, token |-> FALSE, error |-> "Invalid action"]
    ELSE IF call.end = "exception"
    THEN [approved |-> FALSE, token |-> FALSE, error |-> "exception"]
    ELSE IF call.end = "timeout"
    THEN [approved |-> FALSE, token |-> FALSE, error |-> "timeout"]
    ELSE IF call.end = "message"
    THEN s6_stored_result(call.approved)
    ELSE [approved |-> FALSE, token |-> FALSE, error |-> "unknown"]

ToolInit ==
    /\ variant \in {"s6", "ta"}
    /\ pc = [s \in Sessions |-> "idle"]
    /\ state = [s \in Sessions |->
                  [ticker |-> "", prelim |-> "", final |-> "",
                   trade |-> FALSE, finalized |-> FALSE,
                   approval |-> <<>>]]
    /\ stages = [s \in Sessions |-> <<>>]
    /\ req = [s \in Sessions |-> Bogus]
    /\ waited = [s \in Sessions |-> 0]
    /\ pending_approvals = Empty
    /\ pending_request_payloads = Empty
    /\ completed_approvals = Empty
    /\ published = EmptyBag
    /\ next_id = 1
    /\ responses = 0
    /\ late = {}
    /\ accepted = {}
    /\ tasks = [s \in Sessions |-> EmptyBag]
    /\ calls = [s \in Sessions |-> 0]
    /\ ckpt = [s \in Sessions |-> "none"]
    /\ now = 0
    /\ thread_ids = [s \in Sessions |-> [ticker |-> "", sec |-> 0, uuid |-> s]]
    /\ checkpoints = Empty
    /\ NoObservers
    /\ NoRuns
    /\ tool_in \in {c \in ToolCalls :
                      \/ variant = "ta" /\ c.end \in {"message", "non_dict",
                                                       "exception"}
                      \/ variant = "s6" /\ c.end \in {"message", "timeout",
                                                       "missing", "exception"}}
    /\ tool_out = NoResult

\* the tool of trading_agent returns
ta_tool_returns ==
    /\ variant = "ta"
    /\ tool_out = NoResult
    /\ tool_out' = ta_tool_result(tool_in)
    /\ UNCHANGED <<tool_in, flowvars_but_tool, idvars, fanvars>>

\* the tool of session_6 returns
s6_tool_returns ==
    /\ variant = "s6"
    /\ tool_out = NoResult
    /\ tool_out' = s6_tool_result(tool_in)
    /\ UNCHANGED <<tool_in, flowvars_but_tool, idvars, fanvars>>

ToolNext == ta_tool_returns \/ s6_tool_returns

ToolSpec == ToolInit /\ [][ToolNext]_vars

\* ------------------------------------------------- session start: thread ids
\* The thread id is built when a session starts and keys its checkpoints;
\* in trading_agent it also keys the search for a pending request.  A thread
\* id is the record of the parts formatted into the string.
NoThread == [ticker |-> "", sec |-> -1, uuid |-> 0]

\* f"demo_{int(time.time())}"
s6_thread_id(sec) == [ticker |-> "", sec |-> sec, uuid |-> 0]

\* f"trade_{ticker}_{int(time.time())}"
ta_thread_id(ticker, sec) == [ticker |-> ticker, sec |-> sec, uuid |-> 0]

\* f"trade_{ticker}_{int(time.time())}_{uuid.uuid4().hex[:6]}"; u is fresh
s7_thread_id(ticker, sec, u) == [ticker |-> ticker, sec |-> sec, uuid |-> u]

\* sessions started so far
started == {s \in Sessions : pc[s] # "idle"}

IdInit ==
    /\ variant \in Variants
    /\ pc = [s \in Sessions |-> "idle"]
    /\ state = [s \in Sessions |->
                  [ticker |-> "", prelim |-> "", final |-> "",
                   trade |-> FALSE, finalized |-> FALSE,
                   approval |-> <<>>]]
    /\ stages = [s \in Sessions |-> <<>>]
    /\ req = [s \in Sessions |-> Bogus]
    /\ waited = [s \in Sessions |-> 0]
    /\ pending_approvals = Empty
    /\ pending_request_payloads = Empty
    /\ completed_approvals = Empty
    /\ published = EmptyBag
    /\ next_id = 1
    /\ responses = 0
    /\ late = {}
    /\ accepted = {}
    /\ tasks = [s \in Sessions |-> EmptyBag]
    /\ calls = [s \in Sessions |-> 0]
    /\ ckpt = [s \in Sessions |-> "none"]
    /\ now = 0
    /\ thread_ids = [s \in Sessions |-> NoThread]
    /\ checkpoints = Empty
    /\ NoObservers
    /\ NoRuns
    /\ NoTool

\* a second passes: int(time.time()) grows by one
clock_tick ==
    /\ now < MaxSeconds
    /\ now' = now + 1
    /\ UNCHANGED <<fanvars, runvars, toolvars, variant, pc, state, stages, req, waited, pending_approvals,
                   pending_request_payloads, completed_approvals, published,
                   next_id, responses, late, accepted, tasks, calls, ckpt,
                   thread_ids, checkpoints>>

\* POST /api/trade: the thread id of the new session
start_session(s) ==
    /\ pc[s] = "idle"
    /\ \E t \in StartTickers :
         /\ state' = [state EXCEPT ![s].ticker = t]
         /\ thread_ids' = [thread_ids EXCEPT ![s] =
               IF variant = "s6" THEN s6_thread_id(now)
               ELSE IF variant = "ta" THEN ta_thread_id(t, now)
               ELSE s7_thread_id(t, now, Cardinality(started) + 1)]
    /\ pc' = [pc EXCEPT ![s] = "started"]
    /\ UNCHANGED <<fanvars, runvars, toolvars, variant, stages, req, waited, pending_approvals,
                   pending_request_payloads, completed_approvals, published,
                   next_id, responses, late, accepted, tasks, calls, ckpt,
                   now, checkpoints>>

\* the agent runs under config {"configurable": {"thread_id": ...}}: the
\* MemorySaver keeps its checkpoints under that thread id
first_checkpoint(s) ==
    /\ pc[s] = "started"
    /\ LET tid == thread_ids[s]
           old == IF tid \in DOMAIN checkpoints THEN checkpoints[tid] ELSE {}
       IN checkpoints' = Put(checkpoints, tid, old \cup {s})
    /\ pc' = [pc EXCEPT ![s] = "running"]
    /\ UNCHANGED <<fanvars, runvars, toolvars, variant, state, stages, req, waited, pending_approvals,
                   pending_request_payloads, completed_approvals, published,
                   next_id, responses, late, accepted, tasks, calls, ckpt,
                   now, thread_ids>>

\* the session registers its approval request.  session_6 and session_7 key
\* the entry by a fresh request id; trading_agent first searches the pending
\* table for an entry of the thread id (_get_pending_request_for_thread) and
\* registers a new one only when there is none (_emit_approval_request)
register_approval_request(s) ==
    /\ pc[s] = "running"
    /\ LET tid == thread_ids[s]
           existing == {r \in DOMAIN pending_approvals :
                          pending_approvals[r] = tid}
       IN IF variant = "ta" /\ existing # {}
          THEN /\ \E r \in existing : req' = [req EXCEPT ![s] = r]
               /\ UNCHANGED <<pending_approvals, published, next_id>>
          ELSE /\ req' = [req EXCEPT ![s] = next_id]
               /\ pending_approvals' = Put(pending_approvals, next_id, tid)
               /\ published' = publish(approval_request_event(next_id, s))
               /\ next_id' = next_id + 1
    /\ pc' = [pc EXCEPT ![s] = "waiting"]
    /\ UNCHANGED <<fanvars, runvars, toolvars, variant, state, stages, waited, pending_request_payloads,
                   completed_approvals, responses, late, accepted, tasks,
                   calls, ckpt, now, thread_ids, checkpoints>>

IdNext ==
    \/ clock_tick
    \/ \E s \in Sessions : start_session(s)
    \/ \E s \in Sessions : first_checkpoint(s)
    \/ \E s \in Sessions : register_approval_request(s)

IdSpec == IdInit /\ [][IdNext]_vars

\* ---------------------------------------------------- fan-out to observers
\* Events are numbered in publish order.  trading_api and session_6 put
\* events on a SimpleQueue that broadcast_loop drains, and the approval
\* handler broadcasts directly; session_7 broadcasts directly (await
\* broadcast) or through a task made by broadcast_sync.  A broadcast sends to
\* one connection after the other and awaits each send.
flowvars == <<variant, pc, state, stages, req, waited, pending_approvals,
              pending_request_payloads, completed_approvals, published,
              next_id, responses, late, accepted, tasks, calls, ckpt,
              runvars, toolvars>>

Registered == {active_connections[i] : i \in 1..Len(active_connections)}

Without(seq, drop) == SelectSeq(seq, LAMBDA c : c \notin drop)

FanInit ==
    /\ variant \in Variants
    /\ pc = [s \in Sessions |-> "idle"]
    /\ state = [s \in Sessions |->
                  [ticker |-> "", prelim |-> "", final |-> "",
                   trade |-> FALSE, finalized |-> FALSE,
                   approval |-> <<>>]]
    /\ stages = [s \in Sessions |-> <<>>]
    /\ req = [s \in Sessions |-> Bogus]
    /\ waited = [s \in Sessions |-> 0]
    /\ pending_approvals = Empty
    /\ pending_request_payloads = Empty
    /\ completed_approvals = Empty
    /\ published = EmptyBag
    /\ next_id = 1
    /\ responses = 0
    /\ late = {}
    /\ accepted = {}
    /\ tasks = [s \in Sessions |-> EmptyBag]
    /\ calls = [s \in Sessions |-> 0]
    /\ ckpt = [s \in Sessions |-> "none"]
    /\ now = 0
    /\ thread_ids = [s \in Sessions |-> NoThread]
    /\ checkpoints = Empty
    /\ NoObservers
    /\ NoRuns
    /\ NoTool

\* a broadcast in progress: the event, the path it came by, the size of the
\* connection table when the iteration began (dict iterator, trading_api and
\* session_6), the connections registered at that moment (session_7
\* iterates over this copy, list(active_connections.items())), the conn ids
\* visited, the one whose send is awaited, and the drop list
Dispatch(ev, path) ==
    [ev |-> ev, path |-> path, used |-> Len(active_connections),
     start |-> active_connections,
     seen |-> {Head(active_connections)}, cur |-> Head(active_connections),
     drop |-> {}]

\* the broadcasts in progress after a broadcast of ev begins: none is added
\* when the connection table is empty (early return)
begun(ev, path) ==
    IF active_connections = <<>> THEN running
    ELSE running \cup {Dispatch(ev, path)}

\* /ws accepted: active_connections[conn_id] = websocket
ws_connect(c) ==
    /\ c \notin opened
    /\ opened' = opened \cup {c}
    /\ active_connections' = Append(active_connections, c)
    /\ reg_at' = [reg_at EXCEPT ![c] = n_pub]
    /\ UNCHANGED <<queue, running, received, n_pub, raised, failed,
                   flowvars, idvars>>

\* websocket_endpoint ends: finally active_connections.pop(conn_id, None)
ws_disconnect(c) ==
    /\ c \in Registered
    /\ active_connections' = Without(active_connections, {c})
    /\ UNCHANGED <<queue, opened, running, received, reg_at, n_pub, raised,
                   failed, flowvars, idvars>>

\* _broadcast of trading_agent, broadcast_q.put of session_6: the event is
\* put on the queue; broadcast_sync of session_7: the broadcast is made a task
_broadcast ==
    /\ n_pub < MaxEvents
    /\ n_pub' = n_pub + 1
    /\ queue' = Append(queue, n_pub + 1)
    /\ UNCHANGED <<active_connections, opened, running, received, reg_at,
                   raised, failed, flowvars, idvars>>

\* broadcast_loop takes the next event when its previous broadcast is over;
\* in session_7 the event loop starts the next broadcast task
broadcast_loop ==
    /\ queue # <<>>
    /\ variant # "s7" => ~\E d \in running : d.path = "queue"
    /\ queue' = Tail(queue)
    /\ running' = begun(Head(queue), "queue")
    /\ UNCHANGED <<active_connections, opened, received, reg_at, n_pub,
                   raised, failed, flowvars, idvars>>

\* await broadcast_to_all_connections(...) in handle_approval_response,
\* await broadcast(...) in session_7: the caller publishes and broadcasts
broadcast_to_all_connections ==
    /\ n_pub < MaxEvents
    /\ ~\E d \in running : d.path = "direct"
    /\ n_pub' = n_pub + 1
    /\ running' = begun(n_pub + 1, "direct")
    /\ UNCHANGED <<queue, active_connections, opened, received, reg_at,
                   raised, failed, flowvars, idvars>>

\* variant of the except clause that forgets the failed connection
after_send_forgetting(d, ok) == d

\* try: await ws.send_text(payload) / except: disconnects.append(conn_id)
after_send(d, ok) ==
    IF ok THEN d ELSE [d EXCEPT !.drop = @ \cup {d.cur}]

\* the next step of the for loop over the connections: "raise" when the dict
\* changed size since the iteration began (RuntimeError of the dict
\* iterator; session_7 iterates over a list copy), "finish" when no
\* connection is left, else the next conn id
iterate(d) ==
    IF variant # "s7" /\ Len(active_connections) # d.used
    THEN [kind |-> "raise", c |-> 0]
    ELSE LET over == IF variant = "s7" THEN d.start ELSE active_connections
             rest == Without(over, d.seen)
         IN IF rest = <<>> THEN [kind |-> "finish", c |-> 0]
            ELSE [kind |-> "next", c |-> Head(rest)]

\* the awaited send of broadcast d returns (ok) or raises (~ok), and the loop
\* goes on to its next connection, its cleanup, or the RuntimeError
send_text(d, ok) ==
    /\ d \in running
    /\ ok => d.cur \in Registered
    /\ received' = IF ok THEN [received EXCEPT ![d.cur] = Append(@, d.ev)]
                   ELSE received
    /\ failed' = IF ok THEN failed ELSE failed \cup {<<d.ev, d.cur>>}
    /\ LET d1 == after_send(d, ok)
           nxt == iterate(d1)
       IN /\ running' =
                IF nxt.kind = "next"
                THEN (running \ {d}) \cup
                        {[d1 EXCEPT !.cur = nxt.c, !.seen = @ \cup {nxt.c}]}
                ELSE running \ {d}
          /\ active_connections' =
                IF nxt.kind = "finish"
                THEN Without(active_connections, d1.drop)
                ELSE active_connections
          /\ raised' = IF nxt.kind = "raise" THEN raised \cup {d.ev}
                       ELSE raised
    /\ UNCHANGED <<queue, opened, reg_at, n_pub, flowvars, idvars>>

FanNext ==
    \/ \E c \in Conns : ws_connect(c)
    \/ \E c \in Conns : ws_disconnect(c)
    \/ _broadcast
    \/ broadcast_loop
    \/ broadcast_to_all_connections
    \/ \E d \in running, ok \in BOOLEAN : send_text(d, ok)

FanSpec == FanInit /\ [][FanNext]_vars

\* ------------------------------------------------------------- properties
InStages(s, n) == \E i \in 1..Len(stages[s]) : stages[s][i] = n
Count(s, n) == Cardinality({i \in 1..Len(stages[s]) : stages[s][i] = n})

\* the thread (session) a pending request belongs to
OwnerOf(r) == IF variant = "ta" THEN pending_approvals[r]
              ELSE pending_approvals[r].owner
PendingOf(s) == {r \in DOMAIN pending_approvals : OwnerOf(r) = s}

Events(type) == {e \in BagToSet(published) : e.type = type}

\* positions of a session whose approval wait is over
WaitOver == {"resume", "agent_b", "finalizer", "end", "done", "error",
             "tool_returned"}

ApprovedBound(s) ==
    /\ state[s].approval # <<>>
    /\ state[s].approval[1].approved

\* C1: in the graph-interrupt workflow the execute stage (agent_b) is entered
\* only for a BUY/SELL decision with an approval approved = true bound into
\* the state; in every other case the finalizer runs and agent_b never does
C1_ExecuteOnlyWhenApproved ==
    variant = "s7" =>
      \A s \in Sessions :
        /\ (pc[s] = "agent_b" \/ InStages(s, "agent_b"))
              => (state[s].final \in {"BUY", "SELL"} /\ ApprovedBound(s))
        /\ (pc[s] \in {"end", "done"}
              /\ ~(state[s].final \in {"BUY", "SELL"} /\ ApprovedBound(s)))
              => (InStages(s, "finalizer") /\ ~InStages(s, "agent_b"))

C1_Witness ==
    /\ variant = "s7"
    /\ \E s \in Sessions : pc[s] = "done" /\ InStages(s, "agent_b")
    /\ \E s \in Sessions :
          /\ pc[s] = "done"
          /\ state[s].final \in {"BUY", "SELL"}
          /\ state[s].approval # <<>>
          /\ InStages(s, "finalizer")

\* C2: for every request id exactly one of {a human response is accepted,
\* the timeout synthesizes a rejection} takes effect, never both and never
\* neither; after the timeout a later response is not accepted
C2_ExactlyOneResolution ==
    \A rid \in known_ids :
       /\ ~(rid \in late /\ rid \in accepted)
       /\ \A s \in Sessions :
             (req[s] = rid /\ pc[s] \in WaitOver) => rid \in late \cup accepted

\* C3: duplicate delivery of an approval response starts at most one resume
\* for the session and execute_trade runs at most once
C3_AtMostOneResume ==
    \A s \in Sessions :
       /\ calls[s] <= 1
       /\ Count(s, "execute_trade") <= 1
       /\ Count(s, "agent_b") <= 1

ApprovalResponse(rid, approved) ==
    \/ websocket_endpoint(rid, approved)
    \/ s6_handle_approval_response(rid, approved)
    \/ ta_handle_approval_response(rid, approved)

\* C4: an approval response whose request_id is not pending is a no-op: the
\* pending and completed tables stay as they are, no approval_processed event
\* is broadcast and no resume is started
C4_NotPendingIsNoOp ==
    [][\A rid \in known_ids \cup {Bogus}, approved \in BOOLEAN :
          (rid \notin DOMAIN pending_approvals /\ ApprovalResponse(rid, approved))
             => UNCHANGED <<pending_approvals, pending_request_payloads,
                            completed_approvals, published, tasks>>]_vars

\* C5: at most one pending approval request exists per session (thread_id)
C5_OnePendingPerSession ==
    \A s \in Sessions : Cardinality(PendingOf(s)) <= 1

C5_Witness ==
    /\ variant = "ta"
    /\ \A s \in Sessions : PendingOf(s) # {}
    /\ \E s \in Sessions :
          /\ calls[s] >= 2
          /\ \E r \in PendingOf(s) :
                \E e \in Events("approval_request") : e.sess = s /\ e.rid < r

\* C6: request_human_approval entered for a thread that has a pending
\* request reuses that request (same request_id), leaves the stored snapshot
\* as it is and emits no second approval_request event
C6_SubmitIdempotentWhilePending ==
    [][\A s \in Sessions : \A t \in BagToSet(tasks[s]) :
          (PendingOf(s) # {} /\ ta_request_human_approval(s, t))
             => /\ \E r \in PendingOf(s) : tasks' = Moved(s, t, "interrupt", r)
                /\ UNCHANGED <<pending_approvals, pending_request_payloads,
                               published>>]_vars

C6_Witness ==
    /\ variant = "ta"
    /\ \E s \in Sessions : \E t \in BagToSet(tasks[s]) :
          /\ t.pc = "interrupt"
          /\ t.resume # <<>>
          /\ t.rid \in PendingOf(s)
          /\ pending_request_payloads[t.rid].action = state[s].final
          /\ Cardinality({e \in Events("approval_request") : e.sess = s}) = 1

\* C7: a session whose decided action is HOLD completes directly: no approval
\* request is created or broadcast for it, it is never suspended at the gate,
\* and the finalizer is the only stage that runs after the analysis
C7_HoldNeverReachesGate ==
    \A s \in Sessions :
       state[s].final = "HOLD" =>
          /\ PendingOf(s) = {}
          /\ req[s] = Bogus
          /\ ~\E e \in Events("approval_request") : e.sess = s
          /\ pc[s] \notin {"interrupted", "waiting", "resume", "polling",
                           "agent_b", "error"}
          /\ \A t \in BagToSet(tasks[s]) :
                t.pc \notin {"create", "interrupt", "suspended", "created"}
          /\ ~InStages(s, "agent_b")
          /\ ~InStages(s, "execute_trade")
          /\ (variant = "s7" /\ pc[s] \in {"end", "done"})
                => stages[s] = <<"agent_a", "finalizer">>

C7_Witness ==
    /\ variant = "s7"
    /\ \E s \in Sessions :
          /\ state[s].final = "HOLD"
          /\ pc[s] = "done"
          /\ stages[s] = <<"agent_a", "finalizer">>
    /\ \E s \in Sessions : pc[s] = "waiting"

C9_TimeoutIsAnnounced ==
    \A rid \in late :
       \E e \in Events("approval_processed") : e.rid = rid /\ ~e.approved

\* C9 as amended: the timeout publishes no approval_processed event; such an
\* event exists for a request id only when a response for that id was handled
C9_OnlyResponsesAreAnnounced ==
    \A e \in Events("approval_processed") :
       /\ e.rid \in accepted
       /\ CopiesIn(e, published) <= responses

C9_Witness ==
    /\ variant \in {"s6", "s7"}
    /\ \E s \in Sessions :
          /\ req[s] \in late
          /\ req[s] \notin accepted
          /\ pc[s] = "done"
          /\ ~\E e \in Events("approval_processed") : e.rid = req[s]
    /\ Events("approval_processed") # {}

AllIds == 1..(Cardinality(Sessions) + MaxResponses)

\* C10: every approval request that becomes pending eventually leaves the
\* pending table, even if no human ever responds
C10_PendingEventuallyLeaves ==
    \A r \in AllIds :
       (r \in DOMAIN pending_approvals) ~> (r \notin DOMAIN pending_approvals)

\* C11: a stored resolution is consumed exactly once by the waiting session:
\* no request id is in both the pending and the completed table, and once a
\* session has finished its wait (by response or by timeout) no entry for its
\* request id remains or later appears in either table
C11_ResolutionConsumedOnce ==
    /\ DOMAIN pending_approvals \cap DOMAIN completed_approvals = {}
    /\ \A s \in Sessions :
          (pc[s] \in WaitOver /\ req[s] # Bogus)
             => req[s] \notin DOMAIN pending_approvals
                                 \cup DOMAIN completed_approvals

\* C12: session ids are unique: any two sessions started, also two starts
\* for the same ticker within one clock second, have distinct thread ids, so
\* no two sessions share checkpointed state or a pending-approval entry
C12_SessionIdsUnique ==
    \A s1 \in started : \A s2 \in started \ {s1} :
       /\ thread_ids[s1] # thread_ids[s2]
       /\ \A tid \in DOMAIN checkpoints : Cardinality(checkpoints[tid]) <= 1
       /\ (pc[s1] = "waiting" /\ pc[s2] = "waiting") => req[s1] # req[s2]

\* approval requests created for a session so far
RequestsOf(s) == {e \in Events("approval_request") : e.sess = s}

\* C13: a session is suspended at most once per workflow run: at most one
\* approval request is created per run, and once a decision (approved true or
\* false) is bound into the session, routing never returns to the gate
C13_SuspendedAtMostOnce ==
    \A s \in Sessions :
       /\ Cardinality(RequestsOf(s)) <= 1
       /\ \A e \in RequestsOf(s) : CopiesIn(e, published) = 1
       /\ state[s].approval # <<>>
             => pc[s] \notin {"interrupted", "waiting", "polling", "error"}

InSeq(e, seq) == \E i \in 1..Len(seq) : seq[i] = e
StartedWith(d) == {d.start[i] : i \in 1..Len(d.start)}

\* C14: for each single observer events are delivered in the order in which
\* they were published, whichever path published them (broadcast queue,
\* direct broadcast of the approval handler, broadcast task)
C14_DeliveryInPublishOrder ==
    \A c \in Conns :
       \A i \in 1..Len(received[c]) : \A j \in 1..Len(received[c]) :
          i < j => received[c][i] < received[c][j]

\* C15: when the broadcast of an event taken from the queue ends, every
\* observer that stayed registered from its beginning to its end, and whose
\* send did not fail, has received the event, also when another observer
\* connected or disconnected meanwhile
C15_QueuedEventReachesAllObservers ==
    [][\A d \in running : \A ok \in BOOLEAN :
          (/\ d.path = "queue"
           /\ send_text(d, ok)
           /\ ~\E d2 \in running' : d2.ev = d.ev)
             => \A c \in StartedWith(d) :
                   (/\ c \in {active_connections'[i] :
                                i \in 1..Len(active_connections')}
                    /\ <<d.ev, c>> \notin failed')
                      => InSeq(d.ev, received'[c])]_vars

C17_NoReplay ==
    \A c \in Conns :
       \A i \in 1..Len(received[c]) : received[c][i] > reg_at[c]

\* C18: a slow observer blocks nobody: publishing stays enabled, and while a
\* broadcast awaits its send to one observer, the delivery of the event to
\* each other observer it still has to reach is enabled
C18_SlowObserverBlocksNobody ==
    /\ n_pub < MaxEvents => ENABLED _broadcast
    /\ \A d \in running :
          \A c \in Registered \ d.seen :
             ENABLED (/\ send_text(d, TRUE)
                      /\ received'[c] = Append(received[c], d.ev))

\* the approval_request event of request rid has been published
RequestPublished(rid) == \E e \in Events("approval_request") : e.rid = rid

\* C19: publish-before-visible: a request is pending, a response for it is
\* accepted or stored, and a resume of its session is driven, only after the
\* approval_request event of that request has been published
C19_PublishBeforeVisible ==
    /\ \A rid \in DOMAIN pending_approvals : RequestPublished(rid)
    /\ \A rid \in (accepted \cup DOMAIN completed_approvals) \cap known_ids :
          RequestPublished(rid)
    /\ \A s \in Sessions :
          /\ (pc[s] \in WaitOver /\ req[s] # Bogus)
                => \E e \in RequestsOf(s) : e.rid = req[s]
          /\ (calls[s] > 0 \/ \E t \in BagToSet(tasks[s]) : t.resume # <<>>)
                => RequestsOf(s) # {}

C19_Witness ==
    /\ variant = "s7"
    /\ \E s \in Sessions :
          /\ pc[s] = "done"
          /\ req[s] \in accepted
          /\ ApprovedBound(s)
          /\ \E e \in RequestsOf(s) : e.rid = req[s]
    /\ \E s \in Sessions : pc[s] = "waiting" /\ req[s] \in DOMAIN pending_approvals

IsPrefix(a, b) == Len(a) <= Len(b) /\ SubSeq(b, 1, Len(a)) = a
CountIn(seq, names) == Cardinality({i \in 1..Len(seq) : seq[i] \in names})

\* C20: the stage results of a session of the graph workflow are append-only:
\* what agent_a wrote (prelim, news, final), what agent_b or the finalizer
\* wrote (trade, finalized) and the approval decision are written once and
\* never removed or overwritten, and a finished BUY/SELL run has its decision
C20_StageResultsAppendOnly ==
    [][variant = "s7" =>
         \A s \in Sessions :
            /\ state[s].ticker # "" => state'[s].ticker = state[s].ticker
            /\ state[s].final # "" => state'[s].final = state[s].final
            /\ state[s].approval # <<>>
                  => state'[s].approval = state[s].approval
            /\ IsPrefix(stages[s], stages'[s])
            /\ CountIn(stages'[s], {"agent_a"}) <= 1
            /\ CountIn(stages'[s], {"agent_b", "finalizer"}) <= 1
            /\ (pc'[s] = "done" /\ state'[s].final \in {"BUY", "SELL"})
                  => state'[s].approval # <<>>]_vars

C20_Witness ==
    /\ variant = "s7"
    /\ responses >= 2
    /\ \E s \in Sessions :
          /\ pc[s] = "done"
          /\ state[s].final \in {"BUY", "SELL"}
          /\ state[s].approval # <<>>
          /\ stages[s] = <<"agent_a", "agent_b">>
          /\ req[s] \in DOMAIN completed_approvals

\* C21: a recommendation that is missing or outside {BUY, SELL, HOLD} is
\* treated as HOLD: the decided action is HOLD, the session goes to the
\* finalizer, and neither the approval gate nor the execute stage is reached
C21_UnknownRecommendationIsHold ==
    \A s \in Sessions :
       (variant = "s7" /\ InStages(s, "agent_a")
          /\ state[s].prelim \notin {"BUY", "SELL", "HOLD"}) =>
          /\ state[s].final = "HOLD"
          /\ pc[s] \in {"finalizer", "end", "done", "failed"}
          /\ pc[s] = "failed" => stages[s] = <<"agent_a">>
          /\ req[s] = Bogus
          /\ RequestsOf(s) = {}
          /\ state[s].approval = <<>>
          /\ ~InStages(s, "agent_b")
          /\ pc[s] \in {"end", "done"} => stages[s] = <<"agent_a", "finalizer">>

C21_Witness ==
    /\ variant = "s7"
    /\ \E s \in Sessions :
          /\ state[s].prelim = "NONE"
          /\ state[s].final = "HOLD"
          /\ pc[s] = "done"
          /\ stages[s] = <<"agent_a", "finalizer">>

\* number of the tasks in bag b that are at position p
CountAt(b, p) ==
    BagCardinality([t \in {u \in BagToSet(b) : u.pc = p} |-> CopiesIn(t, b)])

\* the session has ended with an error returned by request_trade
Failed(s) == pc[s] \in {"failed", "error"}

\* C22: a failure of a stage invocation is terminal for its session: the
\* failing step invokes no stage and returns the error to the caller, no
\* step after it changes the session (no retry), the step leaves every other
\* session as it was; in the interrupt host the failed task stays failed and
\* a new task is only ever made by a start request or an approval response
C22_StageFailureIsTerminal ==
    [][/\ \A s \in Sessions :
             (variant = "s7" /\ Failed(s)) =>
                /\ outcome[s].status = "error"
                /\ pc'[s] = pc[s]
                /\ stages'[s] = stages[s]
                /\ state'[s] = state[s]
                /\ ticks'[s] = ticks[s]
                /\ outcome'[s] = outcome[s]
       /\ execution_stats'.failed # execution_stats.failed =>
             \E s \in Sessions :
                /\ ~Failed(s)
                /\ pc'[s] \in {"failed", "error"}
                /\ outcome'[s].status = "error"
                /\ stages'[s] = stages[s]
                /\ \A o \in Sessions \ {s} :
                      /\ pc'[o] = pc[o]
                      /\ state'[o] = state[o]
                      /\ stages'[o] = stages[o]
                      /\ outcome'[o] = outcome[o]
                      /\ req'[o] = req[o]
                /\ pending_approvals' = pending_approvals
                /\ completed_approvals' = completed_approvals
       /\ \A s \in Sessions :
             variant = "ta" =>
                /\ CountAt(tasks'[s], "failed") >= CountAt(tasks[s], "failed")
                /\ CountAt(tasks'[s], "failed") > CountAt(tasks[s], "failed") =>
                      /\ BagCardinality(tasks'[s]) = BagCardinality(tasks[s])
                      /\ stages' = stages
                      /\ \A o \in Sessions \ {s} :
                            /\ tasks'[o] = tasks[o]
                            /\ ckpt'[o] = ckpt[o]
                            /\ PendingOf(o)' = PendingOf(o)
                /\ BagCardinality(tasks'[s]) > BagCardinality(tasks[s]) =>
                      \/ pc[s] = "idle"
                      \/ responses' = responses + 1
      ]_vars

C22_Witness ==
    /\ variant = "s7"
    /\ \E s \in Sessions, o \in Sessions :
          /\ pc[s] = "failed"
          /\ state[s].final \in {"BUY", "SELL"}
          /\ InStages(s, "agent_a")
          /\ ~InStages(s, "agent_b")
          /\ state[s].approval # <<>>
          /\ outcome[s].status = "error"
          /\ pc[o] = "done"
          /\ outcome[o].status = "success"

\* the error events published for session s
ErrorEvents(s) == {e \in BagToSet(published) :
                     e.type \in {"agent_error", "error"} /\ e.sess = s}

\* C23: whenever a session has failed because a stage invocation raised, in
\* its first run or in a resumed one, an error event for that session has
\* been published
C23_FailurePublishesErrorEvent ==
    \A s \in Sessions :
       (\/ variant = "s7" /\ pc[s] = "failed"
        \/ variant = "ta" /\ CountAt(tasks[s], "failed") > 0) =>
          ErrorEvents(s) # {}

\* C24: a start request with an empty ticker is rejected with an error
\* result before any state is changed: the step sets nothing but the result
\* handed back (no counter, no task, no thread state, no pending request, no
\* event), and nothing runs for the rejected request afterwards
C24_EmptyTickerChangesNothing ==
    [][\A s \in Sessions :
          /\ (pc[s] = "idle" /\ pc'[s] = "rejected") =>
                /\ outcome'[s].status = "error"
                /\ \A o \in Sessions \ {s} : pc'[o] = pc[o] /\ outcome'[o] = outcome[o]
                /\ UNCHANGED <<execution_stats, ticks, orders, state, stages,
                               req, waited, pending_approvals,
                               pending_request_payloads, completed_approvals,
                               published, next_id, tasks, calls, ckpt,
                               idvars, fanvars>>
          /\ pc[s] = "rejected" =>
                /\ pc'[s] = "rejected"
                /\ outcome'[s] = outcome[s]
                /\ state'[s] = state[s] /\ state[s].ticker = ""
                /\ stages'[s] = <<>>
                /\ tasks'[s] = EmptyBag
                /\ ticks'[s] = 0
      ]_vars

C24_Witness ==
    \E s \in Sessions, o \in Sessions :
       /\ variant = "s7"
       /\ pc[s] = "rejected"
       /\ outcome[s] = error_result("Ticker is required")
       /\ pc[o] = "done"
       /\ execution_stats.total_requests = 1
       /\ published # EmptyBag

\* C25: once execute_trade has placed the order for a session, a failure of
\* the finalize step that follows does not fail the session and does not
\* lose the trade: the request returns success and its response carries the
\* executed trade
C25_TradeSurvivesFinalizeFailure ==
    \A s \in Sessions :
       (variant = "s7" /\ s \in orders /\ outcome[s].status # "") =>
          /\ outcome[s].status = "success"
          /\ outcome[s].trade

\* C26: under fair scheduling every started request_trade returns, with
\* success or with an error, and never invokes the graph more than max_ticks
\* times: each approval wait ends by a response or by the timeout
C26_RequestTradeReturns ==
    /\ [](\A s \in Sessions : ticks[s] <= max_ticks)
    /\ \A s \in Sessions :
          (variant = "s7" /\ pc[s] \notin {"idle", "rejected"})
             ~> (outcome[s].status \in {"success", "error"})

C26_Witness ==
    \E s \in Sessions :
       /\ variant = "s7"
       /\ req[s] \in late
       /\ ticks[s] = 2
       /\ pc[s] = "done"
       /\ outcome[s].status = "success"

\* requests of session_7 that were counted, that returned, whose wait ended
Counted == {s \in Sessions : pc[s] \notin {"idle", "rejected"}}
Returned == {s \in Counted : outcome[s].status # ""}
WaitEnded == {s \in Sessions : req[s] # Bogus /\ pc[s] # "waiting"}

\* C30: the counters of session_7 are conserved: total_requests counts the
\* requests that passed validation, each of them that has returned is counted
\* once, in successful or in failed, each approval wait that has ended is
\* counted once, in approved or in rejected, and timeouts never exceeds
\* rejected
C30_CountersConserved ==
    variant = "s7" =>
       LET st == execution_stats IN
       /\ st.total_requests = Cardinality(Counted)
       /\ st.successful + st.failed = Cardinality(Returned)
       /\ st.successful =
             Cardinality({s \in Returned : outcome[s].status = "success"})
       /\ st.failed =
             Cardinality({s \in Returned : outcome[s].status = "error"})
       /\ st.approved + st.rejected = Cardinality(WaitEnded)
       /\ st.approved =
             Cardinality({s \in WaitEnded : state[s].approval[1].approved})
       /\ st.timeouts = Cardinality({s \in WaitEnded : req[s] \in late})
       /\ st.timeouts <= st.rejected

C30_Witness ==
    /\ variant = "s7"
    /\ execution_stats = [total_requests |-> 2, successful |-> 1,
                          failed |-> 1, approved |-> 1, rejected |-> 1,
                          timeouts |-> 1]

\* the thread has run to its end: it has tasks, none of them has a step
\* left, and its checkpoint holds no interrupt waiting for a response
Ended(s) ==
    /\ tasks[s] # EmptyBag
    /\ \A t \in BagToSet(tasks[s]) : t.pc \in {"done", "failed", "suspended"}
    /\ ckpt[s] # "interrupt"

\* agent_completed and agent_error events published for thread s
TerminalEvents(s) ==
    CopiesIn(agent_completed_event(s), published)
       + CopiesIn(agent_error_event(s), published)

\* C29: every session publishes exactly one terminal event: never more than
\* one agent_completed or agent_error for a thread, and exactly one once the
\* session has ended, runs that were interrupted and resumed included
C29_ExactlyOneTerminalEvent ==
    \A s \in Sessions :
       variant = "ta" =>
          /\ TerminalEvents(s) <= 1
          /\ Ended(s) => TerminalEvents(s) = 1

\* C27: in the polling workflow the timeout is reported only when the wait
\* has lasted max_wait_time, that is after max_wait_time / check_interval
\* polls, never earlier and never a poll later; a response handled during
\* any poll interval, the last one included, is what the tool returns
C27_TimeoutOnlyAtDeadline ==
    \A s \in Sessions :
       variant = "s6" =>
          /\ waited[s] <= max_wait_time
          /\ waited[s] % check_interval = 0
          /\ req[s] \in late =>
                /\ waited[s] = max_wait_time
                /\ waited[s] \div check_interval = 150
                /\ req[s] \notin accepted
                /\ state[s].approval = <<s6_timeout_result>>
          /\ (pc[s] = "polling" /\ waited[s] < max_wait_time) =>
                req[s] \notin late
          /\ (pc[s] \in {"tool_returned", "done"} /\ req[s] \in accepted) =>
                /\ req[s] \notin late
                /\ \E approved \in BOOLEAN :
                      state[s].approval = <<s6_result(approved)>>

C27_Witness ==
    /\ variant = "s6"
    /\ pc[1] = "tool_returned"
    /\ waited[1] = max_wait_time
    /\ req[1] \in accepted
    /\ state[1].approval = <<s6_result(TRUE)>>

\* C28: the approval tool denies by default: a result says approved only
\* when the wait ended with a human response whose "approved" is true, for a
\* BUY or SELL call; every other path (invalid action, malformed or non-dict
\* response, timeout, missing resolution, exception) returns approved =
\* false, and a result carries an approval token only when it says approved
C28_DenyByDefault ==
    tool_out # NoResult =>
       /\ tool_out.approved =>
             /\ tool_in.action \in {"BUY", "SELL"}
             /\ tool_in.end = "message"
             /\ tool_in.approved = "true"
       /\ tool_out.token => tool_out.approved
=============================================================================
